---- MODULE Spec2Model ----
(***************************************************************************)
(* Model of skycfg.go: the module loader (Load / loadImpl / load, the      *)
(* localFileReader), the execution harness (Config.Main) and the test      *)
(* harness (Config.Tests, Test.Run and its accessors, Config.RunTests).    *)
(*                                                                         *)
(* A path or module name is the sequence of its separator-delimited        *)
(* segments; the empty sequence is the empty string.  A symbol table       *)
(* (starlark.StringDict) is [id, syms]: id is the number of the load call  *)
(* whose ExecFile built it (0 for a nil dict), syms its contents.  Only    *)
(* the contents of the root module's table are modelled, since only they   *)
(* reach a Config.  An error is [kind, id], id the load call that made it. *)
(***************************************************************************)
EXTENDS Integers, Sequences, FiniteSets, TLC

\* ------------------------------------------------------------------ bounds
MaxLoads == 4      \* load() calls of a session
MaxConcLoads == 3  \* load() calls of two sessions together
MaxListLen == 2    \* length of the list main returns
MaxOpts == 2       \* ExecOptions passed to one call of Main or RunTests
MaxCalls == 2      \* calls of Tests, Test.Run and RunTests on one Config
MaxReruns == 3     \* calls of Tests and Test.Run when handles are run again

Sessions == {1, 2}

\* ------------------------------------------------------------- input sets
RootNames == {<<"a">>, <<".", "a">>}
ImportNames == {<<"a">>, <<"b">>, <<"c">>, <<"..", "b">>, <<"b\\c">>}
ConcNames == {<<"a">>, <<"b">>}
\* root files in and below the working directory, and names that climb
DeepRoots == {<<"a">>, <<".", "a">>, <<"d", "a">>, <<"d", "..", "e", "a">>}
ClimbingNames == {<<"a">>, <<"..", "b">>, <<"b", "..", "..", "c">>, <<".", "b\\c">>}
BackslashSegs == {"b\\c"}
Separators == {"/", "\\"}

CallableTypes == {"function", "builtin_function_or_method"}
LocalsChoices ==
    {<<>>} \cup {("main" :> t) : t \in CallableTypes \cup {"int"}}

\* the names strings.HasPrefix(name, "test_") holds of
TestPrefixed == {"test_a", "test_b", "test_c"}
TestChoices ==
    {<<>>,
     ("test_a" :> "function") @@ ("test_b" :> "function"),
     ("test_a" :> "function") @@ ("test_b" :> "builtin_function_or_method")
        @@ ("testa" :> "function"),
     ("test_c" :> "int")}
\* symbol tables of a root module with tests
TestLocals ==
    TestChoices \cup {("main" :> "function") @@ t : t \in {<<>>, ("test_a" :> "function")}}

\* starlark.StringDict values handed to WithVars
VarDicts == {<<>>, ("k" :> "v1"), ("j" :> "v1") @@ ("k" :> "v2")}
Durations == {1, 2}

Messages == {"m1", "m2"}
ProtoValues == {[type |-> "proto", elems |-> <<>>, msg |-> m] : m \in Messages}
OtherValues == {[type |-> t, elems |-> <<>>, msg |-> "none"] : t \in {"string", "tuple"}}
NoneValue == [type |-> "NoneType", elems |-> <<>>, msg |-> "none"]
ElemValues ==
    ProtoValues \cup {[type |-> t, elems |-> <<>>, msg |-> "none"] : t \in {"string", "int"}}
SeqsUpTo(S, n) == UNION {[1..k -> S] : k \in 0..n}
ListValues == {[type |-> "list", elems |-> e, msg |-> "none"] : e \in SeqsUpTo(ElemValues, MaxListLen)}
MainValues == {NoneValue} \cup ListValues \cup OtherValues \cup ProtoValues
ExecOpts == SeqsUpTo(VarDicts, MaxOpts)

\* ------------------------------------------------------------------ values
EmptyString == <<>>
NilDict == [id |-> 0, syms |-> <<>>]
\* an error: kind, the load call that made it, and what its message is formatted
\* from (a filename, a value's Type(), an index; <<>> / "none" when not in it)
NoErr == [kind |-> "nil", id |-> 0, filename |-> <<>>, type |-> "none", index |-> <<>>]
Err(k, i) == [kind |-> k, id |-> i, filename |-> <<>>, type |-> "none", index |-> <<>>]
NilConfig == [filename |-> <<>>, globals |-> "nil", locals |-> NilDict]
NoRet == [set |-> FALSE, globals |-> NilDict, err |-> NoErr]
Ret(g, e) == [set |-> TRUE, globals |-> g, err |-> e]
NoResult == [set |-> FALSE, config |-> NilConfig, err |-> NoErr]
NoMainRes ==
    [set |-> FALSE, msgs |-> <<>>, err |-> NoErr, called |-> FALSE,
     out |-> [raised |-> FALSE, value |-> NoneValue], opts |-> <<>>,
     ctx |-> [name |-> "none", vars |-> <<>>]]

\* TestResult
PASS == 0
FAIL == 1

\* []string: nil, or a slice of messages, each [name, err] for the test name
\* and the error it is formatted from
NilStrings == [nil |-> TRUE, elems |-> <<>>]
Strings(e) == [nil |-> FALSE, elems |-> e]
NoRunRes ==
    [set |-> FALSE, msgs |-> NilStrings, err |-> NoErr, log |-> <<>>, opts |-> <<>>]

\* &Test{name, callable, complete: false}: the other fields are zero.  runs,
\* out, took, prev, ret and seen are history: the number of Runs completed
\* on the handle, what the last call of the callable did and how long it
\* took, what the call before it did, what the last Run returned and the
\* ctx.vars the callable was last called with
NewTest(name, callable) ==
    [name |-> name, callable |-> callable, result |-> PASS, duration |-> 0,
     complete |-> FALSE, err |-> NoErr,
     runs |-> 0, out |-> [raised |-> FALSE, err |-> NoErr, writes |-> FALSE],
     took |-> 0, prev |-> [raised |-> FALSE, err |-> NoErr, writes |-> FALSE],
     ret |-> NoErr, seen |-> <<>>]

\* no call of Tests yet; then the slice the last call returned
NoTests == [set |-> FALSE, list |-> <<>>]

\* an accessor of Test panics, or returns one of result, duration, err
Panic(op) ==
    [panic |-> TRUE, op |-> op, result |-> PASS, duration |-> 0, err |-> NoErr]
Returns(op, r, d, e) ==
    [panic |-> FALSE, op |-> op, result |-> r, duration |-> d, err |-> e]
NoQuery == [set |-> FALSE, t |-> NewTest("none", "none"), res |-> Returns("none", PASS, 0, NoErr)]

\* cacheEntry: a key mapped to nil is the in-progress marker
Pending == [state |-> "Pending", globals |-> NilDict, err |-> NoErr]
Done(g, e) == [state |-> "Done", globals |-> g, err |-> e]

VARIABLES
    Separator,   \* filepath.Separator of the build
    caches,      \* heap of cache maps: ref -> (modulePath -> cacheEntry)
    cacheRef,    \* per session: the map loadImpl made (0 before Load)
    root,        \* per session: localFileReader.root
    filename,    \* per session: the filename passed to Load
    stack,       \* per session: the ExecFile frames of the load call stack
    ret,         \* per session: value a load call is returning to its caller
    result,      \* per session: what Load returned
    mainRes,     \* per session: what the last Main returned
    events,      \* history: Resolve / ReadFile / ExecFile calls and load returns
    loads,       \* number of load() calls so far
    tests,       \* the []*Test the last call of Tests returned, if any
    query,       \* what the last call of Result, Duration or Error did
    runRes,      \* what the last RunTests returned
    calls        \* number of calls of Tests, Test.Run and RunTests so far

harness == <<tests, query, runRes, calls>>

vars == <<Separator, caches, cacheRef, root, filename, stack, ret, result,
          mainRes, events, loads, tests, query, runRes, calls>>

\* ------------------------------------------------------------------- paths
Last(s) == s[Len(s)]
Front(s) == SubSeq(s, 1, Len(s) - 1)

\* path.Clean / filepath.Clean on segments: "." is dropped, ".." removes the
\* segment before it; at the top ".." is dropped when rooted, kept otherwise
RECURSIVE CleanFrom(_, _, _)
CleanFrom(acc, segs, rooted) ==
    IF segs = <<>> THEN acc
    ELSE LET h == Head(segs)
             t == Tail(segs)
         IN  IF h = "." THEN CleanFrom(acc, t, rooted)
             ELSE IF h = ".."
                  THEN IF acc # <<>> /\ Last(acc) # ".."
                       THEN CleanFrom(Front(acc), t, rooted)
                       ELSE IF rooted THEN CleanFrom(acc, t, rooted)
                            ELSE CleanFrom(Append(acc, h), t, rooted)
                  ELSE CleanFrom(Append(acc, h), t, rooted)

\* path.Clean("/" + name), without the leading slash
CleanRooted(name) == CleanFrom(<<>>, name, TRUE)

Dot(p) == IF p = <<>> THEN <<".">> ELSE p

\* filepath.Join(r, elem) of a relative r
Join(r, elem) == Dot(CleanFrom(<<>>, r \o elem, FALSE))

\* filepath.Dir(filename)
Dir(f) == Dot(CleanFrom(<<>>, Front(f), FALSE))

\* strings.ContainsRune(name, filepath.Separator) when the separator is not '/'
ContainsRune(name, sep) ==
    sep = "\\" /\ \E i \in 1..Len(name) : name[i] \in BackslashSegs

LocalFileReader(r) == [root |-> r]

\* variant of Resolve: the name is joined to the root as it is
ResolveNoClean(r, name, fromPath) ==
    IF fromPath = EmptyString
    THEN [path |-> name, ok |-> TRUE]
    ELSE IF Separator # "/" /\ ContainsRune(name, Separator)
         THEN [path |-> EmptyString, ok |-> FALSE]
         ELSE [path |-> Join(r.root, name), ok |-> TRUE]

\* localFileReader.Resolve
Resolve(r, name, fromPath) ==
    IF fromPath = EmptyString
    THEN [path |-> name, ok |-> TRUE]
    ELSE IF Separator # "/" /\ ContainsRune(name, Separator)
         THEN [path |-> EmptyString, ok |-> FALSE]
         ELSE [path |-> Join(r.root, CleanRooted(name)), ok |-> TRUE]

\* ----------------------------------------------------------------- history
Event(op, s, call, name, from, path, g, e) ==
    [op |-> op, s |-> s, call |-> call, name |-> name, from |-> from,
     path |-> path, globals |-> g, err |-> e]

Init ==
    /\ Separator \in Separators
    /\ caches = <<>>
    /\ cacheRef = [s \in Sessions |-> 0]
    /\ root = [s \in Sessions |-> <<>>]
    /\ filename = [s \in Sessions |-> <<>>]
    /\ stack = [s \in Sessions |-> <<>>]
    /\ ret = [s \in Sessions |-> NoRet]
    /\ result = [s \in Sessions |-> NoResult]
    /\ mainRes = [s \in Sessions |-> NoMainRes]
    /\ events = <<>>
    /\ loads = 0
    /\ tests = NoTests
    /\ query = NoQuery
    /\ runRes = NoRunRes
    /\ calls = 0

Top(s) == Last(stack[s])

\* variant of Lookup: a Done entry is not returned, the module is loaded again
LookupNoMemo(cache, modulePath) ==
    IF modulePath \in DOMAIN cache /\ cache[modulePath].state = "Pending"
    THEN "Pending" ELSE "Absent"

\* variant of Lookup: the in-progress marker is not tested
LookupNoCycle(cache, modulePath) ==
    IF modulePath \in DOMAIN cache /\ cache[modulePath].state = "Done"
    THEN "Done" ELSE "Absent"

\* e, ok := cache[modulePath], and the tests e != nil and ok
Lookup(cache, modulePath) ==
    IF modulePath \notin DOMAIN cache THEN "Absent"
    ELSE IF cache[modulePath].state = "Done" THEN "Done"
    ELSE "Pending"

\* variant of MarkPending: no marker is stored
MarkNothing(cache, modulePath) == cache

\* cache[modulePath] = nil, before ExecFile
MarkPending(cache, modulePath) == (modulePath :> Pending) @@ cache

\* the closure load of loadImpl, from its entry to its return or to its call
\* of starlark.ExecFile; reader, ref and heap are the session's FileReader,
\* cache reference and the heap holding that cache
load(s, reader, ref, heap, moduleName) ==
    LET call == loads + 1
        fromPath == IF stack[s] = <<>> THEN EmptyString ELSE Top(s).path
        r == Resolve(reader, moduleName, fromPath)
        modulePath == r.path
        cache == heap[ref]
        found == Lookup(cache, modulePath)
        ev(op, g, err) == Event(op, s, call, moduleName, fromPath, modulePath, g, err)
        resolved == ev("Resolve", NilDict, IF r.ok THEN NoErr ELSE Err("resolve", call))
        read == ev("ReadFile", NilDict, NoErr)
        return(g, err, evs) ==
            /\ ret' = [ret EXCEPT ![s] = Ret(g, err)]
            /\ events' = events \o evs \o <<ev("return", g, err)>>
            /\ UNCHANGED stack
    IN  /\ loads' = call
        /\ IF ~r.ok
           THEN /\ return(NilDict, Err("resolve", call), <<resolved>>)
                /\ caches' = heap
           ELSE IF found = "Done"
           THEN /\ return(cache[modulePath].globals, cache[modulePath].err, <<resolved>>)
                /\ caches' = heap
           ELSE IF found = "Pending"
           THEN /\ return(NilDict, Err("cycle", call), <<resolved>>)
                /\ caches' = heap
           ELSE \E readOk \in BOOLEAN :
                  IF ~readOk
                  THEN /\ caches' = [heap EXCEPT ![ref] =
                              (modulePath :> Done(NilDict, Err("read", call))) @@ cache]
                       /\ return(NilDict, Err("read", call), <<resolved, read>>)
                  ELSE /\ caches' = [heap EXCEPT ![ref] = MarkPending(cache, modulePath)]
                       /\ stack' = [stack EXCEPT ![s] = Append(@,
                              [path |-> modulePath, call |-> call,
                               name |-> moduleName, from |-> fromPath])]
                       /\ ret' = [ret EXCEPT ![s] = NoRet]
                       /\ events' = events \o <<resolved, read, ev("ExecFile", NilDict, NoErr)>>

\* variant of execReturn: the entry of a module that failed is deleted
execReturnDropsFailed(s, g, err) ==
    LET f == Top(s)
        cache == caches[cacheRef[s]]
    IN  /\ caches' = [caches EXCEPT ![cacheRef[s]] =
               IF err = NoErr THEN (f.path :> Done(g, err)) @@ @
               ELSE [q \in DOMAIN cache \ {f.path} |-> cache[q]]]
        /\ stack' = [stack EXCEPT ![s] = Front(@)]
        /\ ret' = [ret EXCEPT ![s] = Ret(g, err)]
        /\ events' = Append(events, Event("return", s, f.call, f.name, f.from, f.path, g, err))

\* variant of execReturn: the entry of the module is left as it is
execReturnNoEntry(s, g, err) ==
    LET f == Top(s)
    IN  /\ caches' = caches
        /\ stack' = [stack EXCEPT ![s] = Front(@)]
        /\ ret' = [ret EXCEPT ![s] = Ret(g, err)]
        /\ events' = Append(events, Event("return", s, f.call, f.name, f.from, f.path, g, err))

\* the end of the closure load, after starlark.ExecFile returned (globals, err)
execReturn(s, g, err) ==
    LET f == Top(s)
    IN  /\ caches' = [caches EXCEPT ![cacheRef[s]] = (f.path :> Done(g, err)) @@ @]
        /\ stack' = [stack EXCEPT ![s] = Front(@)]
        /\ ret' = [ret EXCEPT ![s] = Ret(g, err)]
        /\ events' = Append(events, Event("return", s, f.call, f.name, f.from, f.path, g, err))

\* variant of NewCache: one map, made anew by every loadImpl, for all sessions
SharedCache == IF DOMAIN caches = {} THEN Cardinality(DOMAIN caches) + 1
               ELSE CHOOSE r \in DOMAIN caches : TRUE

\* make(map[string]*cacheEntry): a map no other session holds
NewCache == Cardinality(DOMAIN caches) + 1

\* Load up to the root call of load: the default reader, a new cache
Load(s, f, max) ==
    /\ cacheRef[s] = 0
    /\ \A t \in Sessions : t < s => cacheRef[t] # 0
    /\ loads < max
    /\ LET reader == LocalFileReader(Dir(f))
           ref == NewCache
       IN  /\ filename' = [filename EXCEPT ![s] = f]
           /\ root' = [root EXCEPT ![s] = reader.root]
           /\ cacheRef' = [cacheRef EXCEPT ![s] = ref]
           /\ load(s, reader, ref, (ref :> <<>>) @@ caches, f)
    /\ UNCHANGED <<harness, Separator, result, mainRes>>

Executing(s) == cacheRef[s] # 0 /\ stack[s] # <<>> /\ ~ret[s].set

\* the engine reaches a load statement of the executing module: thread.Load
Import(s, n, max) ==
    /\ Executing(s)
    /\ loads < max
    /\ load(s, LocalFileReader(root[s]), cacheRef[s], caches, n)
    /\ UNCHANGED <<harness, Separator, cacheRef, root, filename, result, mainRes>>

\* load returned no error to the load statement: the module body goes on
Continue(s) ==
    /\ stack[s] # <<>> /\ ret[s].set /\ ret[s].err = NoErr
    /\ ret' = [ret EXCEPT ![s] = NoRet]
    /\ UNCHANGED <<harness, Separator, caches, cacheRef, root, filename, stack, result,
                   mainRes, events, loads>>

\* load returned an error to the load statement: ExecFile fails with the
\* globals bound so far and an error wrapping it
Abort(s) ==
    /\ stack[s] # <<>> /\ ret[s].set /\ ret[s].err # NoErr
    /\ execReturn(s, [id |-> Top(s).call, syms |-> <<>>], Err("cannot load", Top(s).call))
    /\ UNCHANGED <<harness, Separator, cacheRef, root, filename, result, mainRes, loads>>

\* the module body runs to its end; L is what a root module may bind
ExecOkWith(s, L) ==
    /\ Executing(s)
    /\ \E syms \in (IF Len(stack[s]) = 1 THEN L ELSE {<<>>}) :
          execReturn(s, [id |-> Top(s).call, syms |-> syms], NoErr)
    /\ UNCHANGED <<harness, Separator, cacheRef, root, filename, result, mainRes, loads>>

ExecOk(s) == ExecOkWith(s, LocalsChoices)

\* ExecFile fails on its own: the source does not compile (no globals), or
\* the module body raises an error (the globals bound so far)
ExecFail(s) ==
    /\ Executing(s)
    /\ \E g \in {NilDict, [id |-> Top(s).call, syms |-> <<>>]} :
          execReturn(s, g, Err("exec", Top(s).call))
    /\ UNCHANGED <<harness, Separator, cacheRef, root, filename, result, mainRes, loads>>

\* variant of LoadResult: the Config is built whatever err is
LoadResultKeepsConfig(f, configLocals, err) ==
    [set |-> TRUE,
     config |-> [filename |-> f, globals |-> "predeclared", locals |-> configLocals],
     err |-> err]

\* what Load makes of loadImpl's (configLocals, err)
LoadResult(f, configLocals, err) ==
    IF err # NoErr
    THEN [set |-> TRUE, config |-> NilConfig, err |-> err]
    ELSE [set |-> TRUE,
          config |-> [filename |-> f, globals |-> "predeclared", locals |-> configLocals],
          err |-> NoErr]

\* the root call of load returns to loadImpl, and loadImpl to Load
LoadReturn(s) ==
    /\ cacheRef[s] # 0 /\ stack[s] = <<>> /\ ret[s].set /\ ~result[s].set
    /\ result' = [result EXCEPT ![s] = LoadResult(filename[s], ret[s].globals, ret[s].err)]
    /\ ret' = [ret EXCEPT ![s] = NoRet]
    /\ UNCHANGED <<harness, Separator, caches, cacheRef, root, filename, stack, mainRes,
                   events, loads>>

\* ---------------------------------------------------------------- Main
\* AsProtoMessage: the message under a value made by NewProtoMessage
AsProtoMessage(v) ==
    IF v.type = "proto" THEN [msg |-> v.msg, ok |-> TRUE] ELSE [msg |-> "none", ok |-> FALSE]

MainErr(k, f, t) == [kind |-> k, id |-> 0, filename |-> f, type |-> t, index |-> <<>>]
MainRet(msgs, err, called) == [set |-> TRUE, msgs |-> msgs, err |-> err, called |-> called]

\* variant of NoMain: the error names the symbol, not the file
NoMainNamesMain(c) == MainRet(<<>>, MainErr("NoMain", <<"main">>, "none"), FALSE)

\* what Main returns when c.locals has no "main"
NoMain(c) == MainRet(<<>>, MainErr("NoMain", c.filename, "none"), FALSE)

\* variant of MainLoop: the messages before the offending element are returned
RECURSIVE MainLoopKeepsPrefix(_, _, _)
MainLoopKeepsPrefix(mainList, ii, msgs) ==
    IF ii > Len(mainList) THEN MainRet(msgs, NoErr, TRUE)
    ELSE LET m == AsProtoMessage(mainList[ii])
         IN  IF ~m.ok
             THEN MainRet(msgs, MainErr("NotProtobuf", <<>>, mainList[ii].type), TRUE)
             ELSE MainLoopKeepsPrefix(mainList, ii + 1, Append(msgs, m.msg))

\* variant of MainLoop: each message is put before the earlier ones
RECURSIVE MainLoopPrepends(_, _, _)
MainLoopPrepends(mainList, ii, msgs) ==
    IF ii > Len(mainList) THEN MainRet(msgs, NoErr, TRUE)
    ELSE LET m == AsProtoMessage(mainList[ii])
         IN  IF ~m.ok
             THEN MainRet(<<>>, MainErr("NotProtobuf", <<>>, mainList[ii].type), TRUE)
             ELSE MainLoopPrepends(mainList, ii + 1, <<m.msg>> \o msgs)

\* the loop of Main over mainList, from 1-based position ii with msgs so far
RECURSIVE MainLoop(_, _, _)
MainLoop(mainList, ii, msgs) ==
    IF ii > Len(mainList) THEN MainRet(msgs, NoErr, TRUE)
    ELSE LET m == AsProtoMessage(mainList[ii])
         IN  IF ~m.ok
             THEN MainRet(<<>>, MainErr("NotProtobuf", <<>>, mainList[ii].type), TRUE)
             ELSE MainLoop(mainList, ii + 1, Append(msgs, m.msg))

\* variant of NotList: None is an error like any other value
NotListNoneIsError(mainVal) ==
    MainRet(<<>>, MainErr("NotList", <<>>, mainVal.type), TRUE)

\* mainVal is not a *starlark.List: None is an empty result, the rest an error
NotList(mainVal) ==
    IF mainVal.type = "NoneType"
    THEN MainRet(<<>>, NoErr, TRUE)
    ELSE MainRet(<<>>, MainErr("NotList", <<>>, mainVal.type), TRUE)

\* Config.Main; out is what starlark.Call of main yields if it is reached
MainImpl(c, out) ==
    LET locals == c.locals.syms
    IN  IF "main" \notin DOMAIN locals
        THEN NoMain(c)
        ELSE IF locals["main"] \notin CallableTypes
        THEN MainRet(<<>>, MainErr("NotCallable", <<>>, locals["main"]), FALSE)
        ELSE IF out.raised
        THEN MainRet(<<>>, MainErr("exec", <<>>, "none"), TRUE)
        ELSE IF out.value.type # "list"
        THEN NotList(out.value)
        ELSE MainLoop(out.value.elems, 1, <<>>)

MainOutcomes ==
    {[raised |-> TRUE, value |-> NoneValue]} \cup
    {[raised |-> FALSE, value |-> v] : v \in MainValues}

\* variant of WithVars: a key an earlier option set keeps its value
WithVarsKeepsFirst(dict, optsVars) == optsVars @@ dict

\* the option WithVars(dict) applied to opts.vars: SetKey for every key
WithVars(dict, optsVars) == dict @@ optsVars

\* for _, opt := range opts { opt.applyExec(parsedOpts) }
RECURSIVE applyExec(_, _)
applyExec(opts, optsVars) ==
    IF opts = <<>> THEN optsVars
    ELSE applyExec(Tail(opts), WithVars(Head(opts), optsVars))

\* parsedOpts, from &execOptions{vars: &starlark.Dict{}}
ParsedOpts(opts) == [vars |-> applyExec(opts, <<>>)]

\* the module skycfg_ctx passed as the single argument
Ctx(v) == [name |-> "skycfg_ctx", vars |-> v]

\* variant of ConfigAfterMain: the value main returned is stored in locals
ConfigStoresMainVal(c, out) ==
    IF out.raised THEN c
    ELSE [c EXCEPT !.locals.syms = ("main" :> out.value.type) @@ @]

\* the receiver after Main: c.locals and c.filename are read, mainVal is a
\* variable of Main
ConfigAfterMain(c, out) == c

\* Main with what main does drawn from Outs and the options from Opts
MainWith(s, Outs, Opts) ==
    /\ result[s].set /\ result[s].config # NilConfig
    /\ \E out \in Outs, opts \in Opts :
          /\ mainRes' = [mainRes EXCEPT ![s] =
                 MainImpl(result[s].config, out) @@
                 [out |-> out, opts |-> opts, ctx |-> Ctx(ParsedOpts(opts).vars)]]
          /\ result' = [result EXCEPT ![s].config = ConfigAfterMain(@, out)]
    /\ UNCHANGED <<harness, Separator, caches, cacheRef, root, filename, stack, ret,
                   events, loads>>

\* Main without options, and Main with options of a main that returns None
Main(s) ==
    \/ MainWith(s, MainOutcomes, {<<>>})
    \/ MainWith(s, {o \in MainOutcomes : o.value = NoneValue}, ExecOpts)

\* ---------------------------------------------------------------- tests
\* what a call of a test callable does: the error it raises if any, and
\* whether it assigns ctx.vars["w"]
TestOutcomes ==
    {[raised |-> e # NoErr, err |-> e, writes |-> w] :
        e \in {NoErr, Err("fail", 0)}, w \in BOOLEAN}

\* ctx.vars after the test called name ran on it
Written(v, name, out) == IF out.writes THEN ("w" :> name) @@ v ELSE v

HasPrefix(name) == name \in TestPrefixed

\* variant of IsTest: a callable of any type is a test
IsTestAnyCallable(locals, name) == HasPrefix(name) /\ locals[name] \in CallableTypes

\* the test the loops of Tests and RunTests make of a symbol
IsTest(locals, name) == HasPrefix(name) /\ locals[name] = "function"

\* the orders a range over a map with the keys S may take
Orders(S) == {o \in [1..Cardinality(S) -> S] : \A x \in S : \E i \in DOMAIN o : o[i] = x}

\* Config.Tests, ranging over c.locals in the given order
RECURSIVE TestsLoop(_, _, _)
TestsLoop(locals, order, ts) ==
    IF order = <<>> THEN ts
    ELSE LET name == Head(order)
         IN  IF ~IsTest(locals, name) THEN TestsLoop(locals, Tail(order), ts)
             ELSE TestsLoop(locals, Tail(order), Append(ts, NewTest(name, locals[name])))

Tests(s) ==
    /\ result[s].set /\ result[s].config # NilConfig
    /\ calls < MaxCalls
    /\ \E order \in Orders(DOMAIN result[s].config.locals.syms) :
          tests' = [set |-> TRUE,
                    list |-> TestsLoop(result[s].config.locals.syms, order, <<>>)]
    /\ calls' = calls + 1
    /\ query' = NoQuery
    /\ UNCHANGED <<Separator, caches, cacheRef, root, filename, stack, ret, result,
                   mainRes, events, loads, runRes>>

\* variant of RunTest: the result is left as it was
RunTestKeepsResult(t, out, d) ==
    [t EXCEPT !.duration = d, !.err = out.err, !.complete = TRUE,
              !.runs = @ + 1, !.out = out, !.took = d, !.prev = t.out,
              !.ret = out.err, !.seen = <<>>]

\* variant of RunTest: a handle that is complete keeps what it recorded
RunTestKeepsFirst(t, out, d) ==
    IF t.complete
    THEN [t EXCEPT !.runs = @ + 1, !.out = out, !.took = d, !.prev = t.out,
                   !.ret = t.err, !.seen = <<>>]
    ELSE [t EXCEPT !.duration = d, !.err = out.err,
                   !.result = IF out.err # NoErr THEN FAIL ELSE PASS,
                   !.complete = TRUE,
                   !.runs = @ + 1, !.out = out, !.took = d, !.prev = t.out,
                   !.ret = out.err, !.seen = <<>>]

\* Test.Run on the handle t: the callable is called with a new, empty
\* ctx.vars, does out and takes d
RunTest(t, out, d) ==
    [t EXCEPT !.duration = d, !.err = out.err,
              !.result = IF out.err # NoErr THEN FAIL ELSE PASS,
              !.complete = TRUE,
              !.runs = @ + 1, !.out = out, !.took = d, !.prev = t.out,
              !.ret = out.err, !.seen = <<>>]

\* Test.Run on the i-th handle, for at most max calls
RunWith(i, max) ==
    /\ i \in DOMAIN tests.list
    /\ calls < max
    /\ \E out \in TestOutcomes, d \in Durations :
          tests' = [tests EXCEPT !.list[i] = RunTest(@, out, d)]
    /\ calls' = calls + 1
    /\ query' = NoQuery
    /\ UNCHANGED <<Separator, caches, cacheRef, root, filename, stack, ret, result,
                   mainRes, events, loads, runRes>>

Run(i) == RunWith(i, MaxCalls)

\* variant of Result: no test of t.complete
ResultNoPanic(t) == Returns("Result", t.result, 0, NoErr)

Result(t) == IF ~t.complete THEN Panic("Result") ELSE Returns("Result", t.result, 0, NoErr)
Duration(t) == IF ~t.complete THEN Panic("Duration") ELSE Returns("Duration", PASS, t.duration, NoErr)
Error(t) == IF ~t.complete THEN Panic("Error") ELSE Returns("Error", PASS, 0, t.err)

\* a call of one of the accessors on a handle
Accessor(i) ==
    /\ i \in DOMAIN tests.list
    /\ \E res \in {Result(tests.list[i]), Duration(tests.list[i]), Error(tests.list[i])} :
          query' = [set |-> TRUE, t |-> tests.list[i], res |-> res]
    /\ UNCHANGED <<Separator, caches, cacheRef, root, filename, stack, ret, result,
                   mainRes, events, loads, tests, runRes, calls>>

\* variant of RunTestsLoop: the loop ends at the first test that fails
RECURSIVE RunTestsLoopBreaks(_, _, _, _, _, _, _)
RunTestsLoopBreaks(locals, order, outs, v, msgs, success, log) ==
    IF order = <<>> \/ ~success
    THEN [msgs |-> msgs, success |-> success, log |-> log]
    ELSE LET name == Head(order)
         IN  IF ~IsTest(locals, name)
             THEN RunTestsLoopBreaks(locals, Tail(order), outs, v, msgs, success, log)
             ELSE RunTestsLoopBreaks(locals, Tail(order), outs, Written(v, name, outs[name]),
                     IF outs[name].err # NoErr
                     THEN Append(msgs, [name |-> name, err |-> outs[name].err])
                     ELSE msgs,
                     success /\ outs[name].err = NoErr,
                     Append(log, [name |-> name, out |-> outs[name], seen |-> v]))

\* the loop of RunTests over c.locals in the given order; every test is
\* called with the one dict v of parsedOpts.vars; log is history
RECURSIVE RunTestsLoop(_, _, _, _, _, _, _)
RunTestsLoop(locals, order, outs, v, msgs, success, log) ==
    IF order = <<>>
    THEN [msgs |-> msgs, success |-> success, log |-> log]
    ELSE LET name == Head(order)
         IN  IF ~IsTest(locals, name)
             THEN RunTestsLoop(locals, Tail(order), outs, v, msgs, success, log)
             ELSE RunTestsLoop(locals, Tail(order), outs, Written(v, name, outs[name]),
                     IF outs[name].err # NoErr
                     THEN Append(msgs, [name |-> name, err |-> outs[name].err])
                     ELSE msgs,
                     success /\ outs[name].err = NoErr,
                     Append(log, [name |-> name, out |-> outs[name], seen |-> v]))

\* variant of RunTestsReturn: the slice msgs is returned whatever success is
RunTestsReturnsMsgs(msgs, success) ==
    IF ~success
    THEN [msgs |-> Strings(msgs), err |-> Err("tests failed", Len(msgs))]
    ELSE [msgs |-> Strings(msgs), err |-> NoErr]

\* the two returns of RunTests; the error is formatted from len(msgs)
RunTestsReturn(msgs, success) ==
    IF ~success
    THEN [msgs |-> Strings(msgs), err |-> Err("tests failed", Len(msgs))]
    ELSE [msgs |-> NilStrings, err |-> NoErr]

RunTestsImpl(c, opts, order, outs) ==
    LET parsedOpts == ParsedOpts(opts)
        r == RunTestsLoop(c.locals.syms, order, outs, parsedOpts.vars, <<>>, TRUE, <<>>)
    IN  RunTestsReturn(r.msgs, r.success) @@ [set |-> TRUE, log |-> r.log, opts |-> opts]

\* the symbols a test callable may be bound to
Callables(locals) == {n \in DOMAIN locals : HasPrefix(n) /\ locals[n] \in CallableTypes}

RunTests(s, Outs, Opts) ==
    /\ result[s].set /\ result[s].config # NilConfig
    /\ calls < MaxCalls
    /\ LET locals == result[s].config.locals.syms
       IN  \E opts \in Opts, order \in Orders(DOMAIN locals),
              outs \in [Callables(locals) -> Outs] :
              runRes' = RunTestsImpl(result[s].config, opts, order, outs)
    /\ calls' = calls + 1
    /\ query' = NoQuery
    /\ UNCHANGED <<Separator, caches, cacheRef, root, filename, stack, ret, result,
                   mainRes, events, loads, tests>>

\* the loader run by the sessions of S, importing the names of N, for at most
\* max calls of load
Loader(S, N, max) ==
    \/ \E s \in S, f \in RootNames : Load(s, f, max)
    \/ \E s \in S, n \in N : Import(s, n, max)
    \/ \E s \in S : Continue(s)
    \/ \E s \in S : Abort(s)
    \/ \E s \in S : ExecOk(s)
    \/ \E s \in S : ExecFail(s)
    \/ \E s \in S : LoadReturn(s)

\* one top-level Load
Next == Loader({1}, ImportNames, MaxLoads)

Spec == Init /\ [][Next]_vars

\* two top-level Loads, one after the other or interleaved
ConcNext == Loader(Sessions, ConcNames, MaxConcLoads)

ConcSpec == Init /\ [][ConcNext]_vars

\* Load of a root module that imports nothing, then Main on its Config
HarnessNext ==
    \/ \E f \in RootNames : Load(1, f, MaxLoads)
    \/ ExecOk(1)
    \/ ExecFail(1)
    \/ LoadReturn(1)
    \/ Main(1)

HarnessSpec == Init /\ [][HarnessNext]_vars

\* Load of a root module that imports nothing, then any calls of Main, Tests,
\* Test.Run, the accessors and RunTests on its Config
TestNext ==
    \/ Load(1, <<"a">>, MaxLoads)
    \/ ExecOkWith(1, TestLocals)
    \/ ExecFail(1)
    \/ LoadReturn(1)
    \/ MainWith(1, {o \in MainOutcomes : o.value = NoneValue}, {<<>>})
    \/ Tests(1)
    \/ \E i \in 1..Len(tests.list) : Run(i)
    \/ \E i \in 1..Len(tests.list) : Accessor(i)
    \/ RunTests(1, TestOutcomes, {<<>>, <<("k" :> "v1")>>})

TestSpec == Init /\ [][TestNext]_vars

\* Load of a root module with two tests, then Tests and any Runs, also of a
\* handle that was run, and the accessors
RerunNext ==
    \/ Load(1, <<"a">>, MaxLoads)
    \/ ExecOkWith(1, {("test_a" :> "function") @@ ("test_b" :> "function")})
    \/ ExecFail(1)
    \/ LoadReturn(1)
    \/ Tests(1)
    \/ \E i \in 1..Len(tests.list) : RunWith(i, MaxReruns)
    \/ \E i \in 1..Len(tests.list) : Accessor(i)

RerunSpec == Init /\ [][RerunNext]_vars

\* one top-level Load of a root file in or below the working directory,
\* importing names with . and .. segments
ResolveNext ==
    \/ \E f \in DeepRoots : Load(1, f, MaxLoads)
    \/ \E n \in ClimbingNames : Import(1, n, MaxLoads)
    \/ Continue(1)
    \/ Abort(1)
    \/ ExecOk(1)
    \/ ExecFail(1)
    \/ LoadReturn(1)

ResolveSpec == Init /\ [][ResolveNext]_vars

\* ============================================================ properties
Idx == 1..Len(events)
Ops(op) == {i \in Idx : events[i].op = op}
SameModule(i, j) == events[i].s = events[j].s /\ events[i].path = events[j].path

\* the Resolve events that yielded a ModulePath
Resolved == {i \in Ops("Resolve") : events[i].err = NoErr}

\* the return event of the load call that made event i
ReturnOf(i) == CHOOSE k \in Ops("return") : events[k].call = events[i].call
Returned(i) == \E k \in Ops("return") : events[k].call = events[i].call

\* at event i, the module of event i is executing: an ExecFile of it has begun
\* and the load call that began it has not returned
ExecutingAt(i) ==
    \E j \in Ops("ExecFile") :
        /\ j < i /\ SameModule(i, j)
        /\ ~\E k \in Ops("return") : k < i /\ events[k].call = events[j].call

\* at event i, the cache entry of the module of event i is Done: a load call
\* that read the file has returned
DoneAt(i) ==
    \E j \in Ops("ReadFile") :
        /\ SameModule(i, j)
        /\ \E k \in Ops("return") : k < i /\ events[k].call = events[j].call

ExecCount(s, p) ==
    Cardinality({i \in Ops("ExecFile") : events[i].s = s /\ events[i].path = p})
ReadCount(s, p) ==
    Cardinality({i \in Ops("ReadFile") : events[i].s = s /\ events[i].path = p})

ExecutedOnce == \A i \in Ops("ExecFile") : ExecCount(events[i].s, events[i].path) = 1

SameResult(i, j) ==
    events[i].globals = events[j].globals /\ events[i].err = events[j].err

\* C1 as stated: in a session every ModulePath is executed at most once, and
\* every load call that resolved to it returns the same symbol table and the
\* same error.
C1_SameForEveryRequester ==
    /\ ExecutedOnce
    /\ \A i, j \in Resolved :
          (SameModule(i, j) /\ Returned(i) /\ Returned(j))
             => SameResult(ReturnOf(i), ReturnOf(j))

\* C1 amended: in a session every ModulePath is executed at most once, and
\* every load call that resolved to it while it was not executing returns the
\* same symbol table and the same error (a call made while it is executing
\* gets the cycle error instead).
C1_ExecutedOnceSameResult ==
    /\ ExecutedOnce
    /\ \A i, j \in Resolved :
          (SameModule(i, j) /\ ~ExecutingAt(i) /\ ~ExecutingAt(j) /\ Returned(i) /\ Returned(j))
             => SameResult(ReturnOf(i), ReturnOf(j))

\* a module is imported three times, executed once, and all three get its table
C1_Witness ==
    \E i, j, k \in Resolved :
        /\ i < j /\ j < k /\ SameModule(i, j) /\ SameModule(j, k)
        /\ events[i].from # EmptyString
        /\ events[i].name # events[j].name
        /\ DoneAt(j) /\ DoneAt(k)
        /\ events[ReturnOf(k)].globals # NilDict
        /\ events[ReturnOf(k)].err = NoErr

\* A load call never finds a Done entry that holds an error: the error a load
\* call returns fails the module that imported it, and so on up to the root,
\* so that no load call follows it in the session.
FailureEndsLoad ==
    /\ \A i \in Resolved :
          (DoneAt(i) /\ Returned(i)) => events[ReturnOf(i)].err = NoErr
    /\ \A k \in Ops("return") : \A i \in Ops("Resolve") :
          (k < i /\ events[k].s = events[i].s) => events[k].err = NoErr

\* the session's load calls that found their module executing
CycleCalls(s) == {i \in Resolved : events[i].s = s /\ ExecutingAt(i)}

\* C2: a load call that resolves to a module that is executing returns the
\* cycle error and no symbol table at once, without reading or executing the
\* module again; a Load in which that happened returns an error and no Config.
C2_CycleError ==
    \A s \in Sessions :
        /\ \A i \in CycleCalls(s) :
              /\ events[i + 1].op = "return"
              /\ events[i + 1].call = events[i].call
              /\ events[i + 1].err.kind = "cycle"
              /\ events[i + 1].globals = NilDict
              /\ ~\E j \in Ops("ReadFile") \cup Ops("ExecFile") :
                    events[j].call = events[i].call
        /\ (result[s].set /\ CycleCalls(s) # {})
              => (result[s].config = NilConfig /\ result[s].err # NoErr)

\* Load of a -> b -> c -> a has returned
C2_Witness ==
    /\ result[1].set
    /\ \E i \in CycleCalls(1) :
          /\ events[i].path = <<"a">> /\ events[i].from = <<"c">>
          /\ \E j \in Ops("ExecFile") :
                events[j].path = <<"c">> /\ events[j].from = <<"b">>

\* the ModulePaths the session has reached from its root
ReachedPaths(s) == {events[i].path : i \in {j \in Resolved : events[j].s = s}}

DepthBounded == \A s \in Sessions : Len(stack[s]) <= Cardinality(ReachedPaths(s))

ConfigOrError ==
    \A s \in Sessions :
        result[s].set => ((result[s].config = NilConfig) <=> (result[s].err # NoErr))

\* the engine keeps running the module bodies and the calls return
FairSpec == Spec /\ WF_vars(Next)

\* C3: a Load that has begun returns, with a Config or with an error, and the
\* load call stack is never deeper than the number of ModulePaths reached.
C3_LoadReturns ==
    /\ [](DepthBounded /\ ConfigOrError)
    /\ (cacheRef[1] # 0) ~> result[1].set

\* a chain of three modules was executing, and the Load has returned
C3_Witness ==
    /\ result[1].set
    /\ Cardinality(ReachedPaths(1)) = 3
    /\ \E j \in Ops("ExecFile") :
          /\ events[j].from # EmptyString
          /\ \E k \in Ops("ExecFile") : events[k].from = events[j].path /\ k > j

\* the session's load calls that returned an error
FailedCalls(s) == {k \in Ops("return") : events[k].s = s /\ events[k].err # NoErr}

\* C5: when a load call of the session failed, the load call of the module
\* that made it fails too, up to the root, and Load returns an error and no
\* Config; Load returns a Config only when no load call failed and every module
\* it reached is Done without error.
C5_ErrorsReachLoad ==
    \A s \in Sessions :
        result[s].set =>
            /\ \A k \in FailedCalls(s) :
                  /\ events[k].from # EmptyString =>
                        \E m \in FailedCalls(s) :
                            m > k /\ events[m].path = events[k].from
                  /\ result[s].config = NilConfig /\ result[s].err # NoErr
            /\ (result[s].config = NilConfig) <=> (result[s].err # NoErr)
            /\ result[s].config # NilConfig =>
                  /\ FailedCalls(s) = {}
                  /\ \A p \in DOMAIN caches[cacheRef[s]] :
                        /\ caches[cacheRef[s]][p].state = "Done"
                        /\ caches[cacheRef[s]][p].err = NoErr
                  /\ result[s].config.locals = caches[cacheRef[s]][filename[s]].globals

\* a Resolve error two imports below the root has reached Load
C5_Witness ==
    /\ result[1].set /\ result[1].config = NilConfig
    /\ \E k \in FailedCalls(1) :
          /\ events[k].err.kind = "resolve"
          /\ events[k].from # filename[1]
          /\ Cardinality(FailedCalls(1)) = 3

Started(s) == cacheRef[s] # 0
CacheOf(s) == caches[cacheRef[s]]

\* C6: two Loads hold different caches; a session's cache has an entry for a
\* ModulePath exactly when that session itself read it, Pending exactly while
\* that session is executing it, and each session executes a module it loads
\* once, whatever the other session has loaded.
C6_SessionsOwnCaches ==
    /\ \A s, u \in Sessions : (Started(s) /\ Started(u) /\ s # u) => cacheRef[s] # cacheRef[u]
    /\ \A s \in Sessions : Started(s) =>
          /\ \A p \in DOMAIN CacheOf(s) :
                /\ ReadCount(s, p) = 1
                /\ CacheOf(s)[p].state = "Pending"
                      <=> \E d \in 1..Len(stack[s]) : stack[s][d].path = p
                /\ (CacheOf(s)[p].state = "Done" /\ CacheOf(s)[p].globals # NilDict)
                      => ExecCount(s, p) = 1
          /\ \A i \in Ops("ReadFile") :
                events[i].s = s => events[i].path \in DOMAIN CacheOf(s)

\* interleaved Loads of the same root: the first is still executing a, which
\* the second has executed too; b is Done in the first and Absent in the second
C6_Witness ==
    /\ Started(1) /\ Started(2)
    /\ filename[1] = filename[2]
    /\ <<"a">> \in DOMAIN CacheOf(1) /\ CacheOf(1)[<<"a">>].state = "Pending"
    /\ <<"b">> \in DOMAIN CacheOf(1) /\ CacheOf(1)[<<"b">>].state = "Done"
    /\ <<"a">> \in DOMAIN CacheOf(2) /\ CacheOf(2)[<<"a">>].state = "Done"
    /\ CacheOf(2)[<<"a">>].globals # NilDict
    /\ <<"b">> \notin DOMAIN CacheOf(2)

\* ------------------------------------------------------------- Main
MainArg == mainRes[1].out.value
\* main was called and returned MainArg
MainReturned == mainRes[1].set /\ mainRes[1].called /\ ~mainRes[1].out.raised
IsList(v) == v.type = "list"
BadElems(v) == {i \in 1..Len(v.elems) : v.elems[i] \notin ProtoValues}
\* the 1-based position of the first element that is no record
FirstBad(v) == CHOOSE i \in BadElems(v) : \A j \in BadElems(v) : i <= j

\* C7: Main on a Config without "main" returns the NoMain error naming the
\* filename passed to Load and no records, and does not call the engine.
C7_NoMainFunction ==
    (mainRes[1].set /\ "main" \notin DOMAIN result[1].config.locals.syms) =>
        /\ mainRes[1].err.kind = "NoMain"
        /\ mainRes[1].err.filename = filename[1]
        /\ mainRes[1].msgs = <<>>
        /\ ~mainRes[1].called

C7_Witness ==
    /\ mainRes[1].set /\ mainRes[1].err.kind = "NoMain"
    /\ mainRes[1].err.filename = <<".", "a">>
    /\ result[1].config.locals.syms = <<>>

\* C8: when main returns a list of records only, Main returns no error and the
\* message of element i at position i for every i; what Main returns never
\* holds anything but messages.
C8_RecordsInOrder ==
    /\ (MainReturned /\ IsList(MainArg) /\ BadElems(MainArg) = {}) =>
          /\ mainRes[1].err = NoErr
          /\ Len(mainRes[1].msgs) = Len(MainArg.elems)
          /\ \A i \in 1..Len(MainArg.elems) :
                mainRes[1].msgs[i] = AsProtoMessage(MainArg.elems[i]).msg
    /\ \A i \in 1..Len(mainRes[1].msgs) : mainRes[1].msgs[i] \in Messages

C8_Witness ==
    /\ MainReturned /\ IsList(MainArg)
    /\ mainRes[1].msgs = <<"m1", "m2">>
    /\ mainRes[1].err = NoErr

\* main returned neither None nor a list, or a list with an element that is
\* no record
InvalidShape ==
    /\ MainReturned
    /\ \/ ~IsList(MainArg) /\ MainArg # NoneValue
       \/ IsList(MainArg) /\ BadElems(MainArg) # {}

\* C9 as stated: then Main returns an error and no records; the error names the
\* type of the offending value and, for a list element, the (0-based) index of
\* the first offending element.
C9_ErrorNamesIndex ==
    InvalidShape =>
        /\ mainRes[1].err.kind \in {"NotList", "NotProtobuf"}
        /\ mainRes[1].msgs = <<>>
        /\ IF IsList(MainArg)
           THEN /\ mainRes[1].err.type = MainArg.elems[FirstBad(MainArg)].type
                /\ mainRes[1].err.index = <<FirstBad(MainArg) - 1>>
           ELSE mainRes[1].err.type = MainArg.type

\* C9 amended: then Main returns an error and no records; the error names the
\* type of the offending value, for a list that of its first element that is
\* no record, and no index.
C9_ErrorNamesType ==
    InvalidShape =>
        /\ mainRes[1].msgs = <<>>
        /\ mainRes[1].err.index = <<>>
        /\ IF IsList(MainArg)
           THEN /\ mainRes[1].err.kind = "NotProtobuf"
                /\ mainRes[1].err.type = MainArg.elems[FirstBad(MainArg)].type
           ELSE /\ mainRes[1].err.kind = "NotList"
                /\ mainRes[1].err.type = MainArg.type

\* main returned [record, "not a record"]
C9_Witness ==
    /\ InvalidShape /\ IsList(MainArg)
    /\ Len(MainArg.elems) = 2 /\ FirstBad(MainArg) = 2
    /\ MainArg.elems[2].type = "string"
    /\ mainRes[1].err.kind = "NotProtobuf"

\* C10: when main returns None, Main returns no records and no error.
C10_NoneIsEmpty ==
    (MainReturned /\ MainArg = NoneValue) =>
        (mainRes[1].msgs = <<>> /\ mainRes[1].err = NoErr)

C10_Witness ==
    /\ MainReturned /\ MainArg = NoneValue
    /\ mainRes[1].err = NoErr
    /\ result[1].config.locals.syms["main"] = "function"

\* ------------------------------------------------------------- C11
\* the Config as Load built it, read again from the cache entry of the root
FreshConfig(s) ==
    [filename |-> filename[s], globals |-> "predeclared",
     locals |-> caches[cacheRef[s]][filename[s]].globals]
Loaded(s) == result[s].set /\ result[s].err = NoErr
MainReturn(s) == [f \in {"set", "msgs", "err", "called"} |-> mainRes[s][f]]
LogNames == {runRes.log[i].name : i \in DOMAIN runRes.log}
HandleNames == {tests.list[i].name : i \in DOMAIN tests.list}
\* the symbols of locals that are tests: the prefix and the type "function"
Discovered(locals) == {n \in DOMAIN locals : n \in TestPrefixed /\ locals[n] = "function"}

\* C11: whatever calls of Main, Tests, Test.Run and RunTests were made on a
\* Config and however they ended, its filename, globals and locals are those
\* Load gave it, and the last Main and the last test runs did what they do on
\* the Config as loaded.
C11_ConfigUnchanged ==
    \A s \in Sessions : Loaded(s) =>
        /\ result[s].config = FreshConfig(s)
        /\ mainRes[s].set => MainReturn(s) = MainImpl(FreshConfig(s), mainRes[s].out)
        /\ s = 1 /\ tests.set => HandleNames = Discovered(FreshConfig(s).locals.syms)
        /\ s = 1 /\ runRes.set => LogNames = Discovered(FreshConfig(s).locals.syms)

\* a Main that failed and a RunTests with a failed test, on one Config
C11_Witness ==
    /\ Loaded(1)
    /\ mainRes[1].set /\ mainRes[1].called /\ mainRes[1].err # NoErr
    /\ runRes.set /\ runRes.err # NoErr /\ runRes.log # <<>>

\* ------------------------------------------------------------- C12
Injected(opts) == UNION {DOMAIN opts[i] : i \in DOMAIN opts}
LastWith(opts, k) ==
    CHOOSE i \in DOMAIN opts :
        k \in DOMAIN opts[i] /\ \A j \in DOMAIN opts : j > i => k \notin DOMAIN opts[j]

\* C12: when main is called, the vars of its single argument hold every key
\* injected by a WithVars option, with the value of the last option that has
\* the key.
C12_VarsReachMain ==
    \A s \in Sessions : mainRes[s].set /\ mainRes[s].called =>
        LET opts == mainRes[s].opts
            v == mainRes[s].ctx.vars
        IN  \A k \in Injected(opts) :
                k \in DOMAIN v /\ v[k] = opts[LastWith(opts, k)][k]

\* main was called with two options that give one key two values
C12_Witness ==
    /\ mainRes[1].set /\ mainRes[1].called
    /\ \E i, j \in DOMAIN mainRes[1].opts :
          /\ i < j
          /\ "k" \in DOMAIN mainRes[1].opts[i] /\ "k" \in DOMAIN mainRes[1].opts[j]
          /\ mainRes[1].opts[i]["k"] # mainRes[1].opts[j]["k"]
          /\ mainRes[1].ctx.vars["k"] = mainRes[1].opts[j]["k"]

\* ------------------------------------------------------------- C13
\* C13: Result, Duration or Error called on a handle no Run has completed on
\* panics; called after a Run it returns what the Run recorded.
C13_AccessorsPanicBeforeRun ==
    query.set =>
        IF query.t.runs = 0 THEN query.res.panic
        ELSE /\ ~query.res.panic
             /\ query.res.op = "Result" => query.res.result = query.t.result
             /\ query.res.op = "Duration" => query.res.duration = query.t.duration
             /\ query.res.op = "Error" => query.res.err = query.t.err

\* an accessor panicked on a handle not run, after another handle of the
\* same slice was run
C13_Witness ==
    /\ query.set /\ query.t.runs = 0 /\ query.res.panic
    /\ \E i \in DOMAIN tests.list : tests.list[i].runs > 0

\* ------------------------------------------------------------- C14
\* C14: after Run the result is FAIL exactly when the callable raised an
\* error and PASS otherwise; the error Run returned is the one Error returns,
\* and it is nil exactly when the result is PASS.
C14_FailIffError ==
    \A i \in DOMAIN tests.list :
        LET t == tests.list[i]
        IN  t.runs > 0 =>
              /\ t.result = (IF t.out.raised THEN FAIL ELSE PASS)
              /\ ~Error(t).panic /\ t.ret = Error(t).err
              /\ (t.ret = NoErr) <=> (t.result = PASS)

\* a Run of a test whose callable raised an error
C14_Witness ==
    \E i \in DOMAIN tests.list :
        tests.list[i].runs > 0 /\ tests.list[i].out.raised /\ tests.list[i].result = FAIL

\* ------------------------------------------------------------- C15
CalledAt(name) == {i \in DOMAIN runRes.log : runRes.log[i].name = name}
FailedAt == {i \in DOMAIN runRes.log : runRes.log[i].out.raised}

\* C15: RunTests calls every test of the Config exactly once, whatever the
\* order of the range and however many tests called before it failed.
C15_EveryTestRunsOnce ==
    runRes.set =>
        \A n \in Discovered(result[1].config.locals.syms) : Cardinality(CalledAt(n)) = 1

\* a test was called after the test before it failed
C15_Witness ==
    /\ runRes.set /\ Len(runRes.log) = 2
    /\ runRes.log[1].out.raised

\* ------------------------------------------------------------- C16
MsgsFor(name) == {j \in DOMAIN runRes.msgs.elems : runRes.msgs.elems[j].name = name}

\* C16: RunTests returns one message for each test that failed, naming it,
\* and none for a test that passed; its error is non-nil exactly when a test
\* failed; when none failed the slice and the error are both nil.
C16_OneMessagePerFailure ==
    runRes.set =>
        /\ \A i \in DOMAIN runRes.log :
              Cardinality(MsgsFor(runRes.log[i].name)) = (IF i \in FailedAt THEN 1 ELSE 0)
        /\ \A j \in DOMAIN runRes.msgs.elems : CalledAt(runRes.msgs.elems[j].name) # {}
        /\ (runRes.err # NoErr) <=> (FailedAt # {})
        /\ FailedAt = {} => runRes.msgs.nil /\ runRes.err = NoErr

\* one test failed and one passed
C16_Witness ==
    /\ runRes.set /\ Len(runRes.log) = 2
    /\ Cardinality(FailedAt) = 1
    /\ Len(runRes.msgs.elems) = 1

\* ------------------------------------------------------------- C17
\* C17: no test sees in ctx.vars what another test wrote: a test run by
\* Test.Run or by RunTests is called with vars holding only what the options
\* injected.
C17_TestsShareNothing ==
    /\ \A i \in DOMAIN tests.list : tests.list[i].runs > 0 => tests.list[i].seen = <<>>
    /\ runRes.set =>
          \A i \in DOMAIN runRes.log :
              runRes.log[i].seen = ParsedOpts(runRes.opts).vars

\* ------------------------------------------------------------- C18
\* C18 as stated: Tests returns a handle for every symbol with the prefix
\* test_ whose value is callable, of whatever type.
C18_CallablesAreTests ==
    tests.set => HandleNames = Callables(result[1].config.locals.syms)

\* C18: Tests returns exactly one handle for every symbol with the prefix
\* test_ whose value has the type "function" and none for any other symbol,
\* RunTests calls those same symbols, and a handle is not complete until a
\* Run on it.
C18_FunctionsAreTests ==
    /\ tests.set =>
          /\ HandleNames = Discovered(result[1].config.locals.syms)
          /\ Len(tests.list) = Cardinality(HandleNames)
          /\ \A i \in DOMAIN tests.list :
                tests.list[i].runs = 0 => ~tests.list[i].complete /\ Result(tests.list[i]).panic
    /\ runRes.set => LogNames = Discovered(result[1].config.locals.syms)

\* Tests on a Config with a function, a builtin and a non-prefixed function
C18_Witness ==
    /\ tests.set /\ Len(tests.list) = 1 /\ ~tests.list[1].complete
    /\ LET locals == result[1].config.locals.syms
       IN  /\ "test_b" \in DOMAIN locals /\ locals["test_b"] = "builtin_function_or_method"
           /\ "testa" \in DOMAIN locals

\* ------------------------------------------------------------- C19
EventsOf(s, op) == SelectSeq(events, LAMBDA e : e.s = s /\ e.op = op)
\* the ModulePaths whose bodies began to execute, in that order
ExecOrder(s) == [i \in DOMAIN EventsOf(s, "ExecFile") |-> EventsOf(s, "ExecFile")[i].path]
\* the import directives the body of p reached, in source order
Directives(s, p) ==
    SelectSeq(events, LAMBDA e : e.s = s /\ e.op = "Resolve" /\ e.err = NoErr /\ e.from = p)
Imports(s, p) == [i \in DOMAIN Directives(s, p) |-> Directives(s, p)[i].path]
\* q names a file that could not be read: there is no module body
NoBody(s, q) ==
    \E k \in Ops("return") : events[k].s = s /\ events[k].path = q /\ events[k].err.kind = "read"

\* depth-first pre-order over Imports, not entering a module entered before
RECURSIVE Visit(_, _, _), VisitAll(_, _, _)
Visit(s, p, acc) ==
    VisitAll(s, Imports(s, p), [order |-> Append(acc.order, p), seen |-> acc.seen \cup {p}])
VisitAll(s, targets, acc) ==
    IF targets = <<>> THEN acc
    ELSE IF Head(targets) \in acc.seen \/ NoBody(s, Head(targets))
         THEN VisitAll(s, Tail(targets), acc)
         ELSE VisitAll(s, Tail(targets), Visit(s, Head(targets), acc))
PreOrder(s) ==
    IF cacheRef[s] = 0 \/ NoBody(s, filename[s]) THEN <<>>
    ELSE Visit(s, filename[s], [order |-> <<>>, seen |-> {}]).order

\* the load calls the body of the module of return event r made
CallsOf(r) ==
    {i \in Ops("Resolve") : events[i].s = events[r].s /\ events[i].from = events[r].path}
\* the return events of load calls that executed a module
ExecReturns == {r \in Ops("return") : \E e \in Ops("ExecFile") : events[e].call = events[r].call}
\* before event r, a Done entry was recorded for the module of event i
DoneBefore(i, r) ==
    \E j \in Ops("ReadFile") :
        /\ SameModule(i, j)
        /\ \E k \in Ops("return") : k < r /\ events[k].call = events[j].call
EntryOf(e) == caches[cacheRef[events[e].s]][events[e].path]
DepthFirst == \A s \in Sessions : ExecOrder(s) = PreOrder(s)

\* C19 as stated: module bodies begin to execute in depth-first pre-order, and
\* the Done entry of a module is recorded only after every module it imports
\* has its Done entry.
C19_ImportsDoneFirst ==
    /\ DepthFirst
    /\ \A r \in ExecReturns : \A i \in CallsOf(r) :
          events[i].err = NoErr => DoneBefore(i, r)

\* C19 amended: module bodies begin to execute in depth-first pre-order of
\* the import directives, a module entered before (Done or executing) not
\* being entered again; the Done entry of a module is recorded when its load
\* call returns, after every load call its body made has returned, and each
\* module these calls resolved to has its Done entry by then unless it was
\* executing when imported (the call returned the cycle error).
C19_DepthFirstNested ==
    /\ DepthFirst
    /\ \A e \in Ops("ExecFile") :
          EntryOf(e).state = (IF Returned(e) THEN "Done" ELSE "Pending")
    /\ \A r \in ExecReturns : \A i \in CallsOf(r) :
          /\ i < r /\ Returned(i) /\ ReturnOf(i) < r
          /\ (events[i].err = NoErr /\ ~ExecutingAt(i)) => DoneBefore(i, r)

\* a imports b, b imports c, a imports c again: c is not entered twice, and
\* all three are complete
C19_Witness ==
    /\ Len(ExecOrder(1)) = 3
    /\ result[1].set /\ result[1].err = NoErr
    /\ \E i \in Resolved : events[i].from = filename[1] /\ DoneAt(i)
    /\ \E i \in Resolved : events[i].from \notin {EmptyString, filename[1]}

\* ------------------------------------------------------------- C20
\* no "." segment (but the path "."), and ".." only at the front
Normalized(p) ==
    \/ p = <<".">>
    \/ \A k \in DOMAIN p :
          /\ p[k] # "."
          /\ p[k] = ".." => \A j \in 1..k : p[j] = ".."
UnderRoot(r, p) ==
    IF r = <<".">> THEN p # <<>> /\ p[1] # ".."
    ELSE Len(p) >= Len(r) /\ SubSeq(p, 1, Len(r)) = r

File(p) == CleanFrom(<<>>, p, FALSE)
\* the imports that name the file of the session's root module
RootImports(s) ==
    {i \in Resolved : events[i].s = s /\ events[i].from # EmptyString
                       /\ File(events[i].path) = File(filename[s])}
RootExecs(s) ==
    {e \in Ops("ExecFile") : events[e].s = s /\ File(events[e].path) = File(filename[s])}

\* C21: however the root filename is spelled, an import that names the root
\* file while the root module is executing returns the cycle error at once,
\* and the body of the root file is executed once in the session.
C21_RootIsOneModule ==
    \A s \in Sessions :
        /\ \A i \in RootImports(s) :
              /\ events[i + 1].op = "return" /\ events[i + 1].call = events[i].call
              /\ events[i + 1].err.kind = "cycle"
        /\ Cardinality(RootExecs(s)) <= 1

\* ------------------------------------------------------------- C22
PendingPaths(s) ==
    IF cacheRef[s] = 0 THEN {}
    ELSE {q \in DOMAIN caches[cacheRef[s]] : caches[cacheRef[s]][q].state = "Pending"}
StackPaths(s) == {stack[s][k].path : k \in DOMAIN stack[s]}
PendingIsExecuting ==
    \A s \in Sessions :
        /\ PendingPaths(s) = StackPaths(s)
        /\ result[s].set => PendingPaths(s) = {}
\* a step that pops the frame of q stores its Done entry; a Done entry stays
EntriesSettle ==
    \A s \in Sessions : cacheRef[s] # 0 =>
        \A q \in DOMAIN caches[cacheRef[s]] :
            LET e == caches[cacheRef[s]][q]
                f == IF q \in DOMAIN caches'[cacheRef[s]]
                     THEN caches'[cacheRef[s]][q] ELSE Pending
            IN  /\ q \in DOMAIN caches'[cacheRef[s]]
                /\ e.state = "Done" => f = e
                /\ (e.state = "Pending" /\ Len(stack'[s]) < Len(stack[s]) /\ Top(s).path = q)
                      => (f.state = "Done" /\ f.globals = ret'[s].globals /\ f.err = ret'[s].err)
                /\ (e.state = "Pending" /\ f.state = "Done")
                      => (Len(stack'[s]) < Len(stack[s]) /\ Top(s).path = q)

\* C22: at every point the ModulePaths with a Pending entry are exactly the
\* modules executing on the load call stack; when the execution of a module
\* returns, with or without an error, its Pending entry becomes the Done
\* entry of what it returned; a Done entry never changes; once Load has
\* returned no entry is Pending.
C22_PendingIsExecuting == []PendingIsExecuting /\ [][EntriesSettle]_vars

\* two modules are executing and Pending, a third is Done with an error
C22_Witness ==
    /\ Cardinality(PendingPaths(1)) = 2 /\ Len(stack[1]) = 2
    /\ \E q \in DOMAIN caches[cacheRef[1]] :
          caches[cacheRef[1]][q].state = "Done" /\ caches[cacheRef[1]][q].err # NoErr

\* ------------------------------------------------------------- C23
\* the handle was run, and holds what its last Run did
HoldsLastRun(t) ==
    /\ t.complete
    /\ t.result = (IF t.out.raised THEN FAIL ELSE PASS)
    /\ t.err = t.out.err /\ t.duration = t.took
    /\ (t.result = FAIL) <=> (t.err # NoErr)
    /\ ~Result(t).panic /\ ~Duration(t).panic /\ ~Error(t).panic
\* the step is a call of Tests: the slice holds new handles
NewHandles == tests' # tests /\ \A j \in DOMAIN tests'.list : tests'.list[j].runs = 0
RanStaysRan ==
    \A i \in DOMAIN tests.list : tests.list[i].runs > 0 =>
        \/ NewHandles
        \/ /\ i \in DOMAIN tests'.list
           /\ tests'.list[i].name = tests.list[i].name
           /\ tests'.list[i].complete
           /\ tests'.list[i].runs >= tests.list[i].runs

\* C23: a handle a Run has completed on stays complete under every later
\* call, and after every Run it holds the result, the duration and the error
\* of its last Run, the result being FAIL exactly when there is an error.
C23_RanStaysRan ==
    /\ [](\A i \in DOMAIN tests.list : tests.list[i].runs > 0 => HoldsLastRun(tests.list[i]))
    /\ [][RanStaysRan]_vars

\* a handle was run twice: the first Run failed, the second passed
C23_Witness ==
    \E i \in DOMAIN tests.list :
        /\ tests.list[i].runs = 2
        /\ tests.list[i].prev.raised /\ ~tests.list[i].out.raised
        /\ tests.list[i].result = PASS /\ tests.list[i].err = NoErr
====
